---- MODULE Spec2Model ----
(***************************************************************************)
(* The DRM/KMS backend of softbuffer (src/src/backends/kms.rs) driven by   *)
(* a host application shaped like examples/drm.rs.                         *)
(*                                                                         *)
(* The program is single-threaded: every handler runs to completion.  The  *)
(* only concurrent party is the display hardware, which completes a        *)
(* requested page flip at some later vertical blank (FlipComplete).        *)
(* A Rust panic (expect, unwrap, assert_eq!, panic!) unwinds the calling   *)
(* thread: the model records it as pc = "panicked", keeps the fields as    *)
(* they were when the panic was raised, and runs no further handler.       *)
(***************************************************************************)
EXTENDS Integers, Sequences, FiniteSets

(* ------------------------------ bounds --------------------------------- *)
\* connectors the device enumerates (res.connectors())
MaxConnectors == 2
\* encoders the chosen connector lists (conn.encoders())
MaxEncoders == 2
\* CRTCs the device enumerates (res.crtcs())
MaxCrtcs == 2
\* calls of resize that get as far as allocating (bounds the handle counter)
MaxResizes == 2
\* pixels per row the driver may pad a dumb buffer's pitch by
MaxRowPad == 1
\* completion events the device queues for the file before it refuses
\* to reserve space for another one
MaxEvents == 2

(* --------------------------- value domains ----------------------------- *)
None == [none |-> TRUE]

\* Mode::size() is (u16, u16); the two timing modes a connector may report
ModeA == <<3, 2>>
ModeB == <<2, 1>>
ModeLists == {<<>>, <<ModeA>>, <<ModeA, ModeB>>, <<ModeB, ModeA>>}

ConnectorStates == {"Connected", "Disconnected", "Unknown"}

\* what get_connector(handle, true) answers for one connector: an error, or
\* the connector's state
ConnectorProbes ==
    [handle : 1..MaxConnectors, ok : {TRUE}, state : ConnectorStates]
        \cup [handle : 1..MaxConnectors, ok : {FALSE}, state : {"Unknown"}]

\* what get_encoder(handle) answers for one encoder: an error, or the
\* encoder's possible_crtcs bitmask (bit n stands for the n-th CRTC of the
\* device's list; the list may be shorter than the bitmask)
EncoderProbes ==
    [ok : {TRUE}, possible_crtcs : 0..(2^MaxCrtcs - 1)]
        \cup [ok : {FALSE}, possible_crtcs : {0}]

RECURSIVE SeqsUpTo(_, _)
SeqsUpTo(S, n) ==
    IF n = 0 THEN {<<>>}
    ELSE LET shorter == SeqsUpTo(S, n - 1)
         IN  shorter \cup {Append(s, x) : s \in {t \in shorter : Len(t) = n - 1}, x \in S}

\* res.connectors() lists each connector once, in enumeration order
ConnectorLists ==
    {s \in SeqsUpTo(ConnectorProbes, MaxConnectors) :
        \A i \in 1..Len(s) : s[i].handle = i}

EncoderLists == SeqsUpTo(EncoderProbes, MaxEncoders)

\* res.crtcs(): distinct CRTC handles, in the device's order
CrtcLists ==
    {s \in SeqsUpTo(1..MaxCrtcs, MaxCrtcs) :
        \A i, j \in 1..Len(s) : i # j => s[i] # s[j]}

\* RawDisplayHandle variants the application may pass, or no handle at all
DisplayHandles == {"Drm", "Xlib", "Unavailable"}

VARIABLES
    pc,        \* where the host application is: "start", "ctx", "new_conn",
               \* "new_crtc", "new_mode", "surf", "init_err", "panicked"
    res,       \* ResourceHandles loaded by KmsImpl::new
    probe,     \* what the device answered to the queries of the negotiation
               \* step just run
    conn,      \* KmsImpl.conn
    crtc,      \* KmsImpl.crtc (its handle)
    mode,      \* KmsImpl.mode
    buffers,   \* KmsImpl.buffers : Option<Buffers>
    held,      \* the BufferImpl the application holds, or None
    card,      \* the DRM device: objects, scan-out, pending flip, events
    calls,     \* the device calls issued by the handler that ran last
    ret,       \* what the handler that ran last returned
    hist,      \* history: resized (a resize has completed), handed (the
               \* buffers handed out since the last resize), presented (the
               \* buffers presented since the last completed resize, kept
               \* while cycle holds), cycle (since that resize every
               \* buffer_mut succeeded and every buffer handed out was
               \* presented)
    window     \* who owns the window handle W: "caller", "new" (the
               \* running KmsImpl::new), "surface" (KmsImpl.window),
               \* "returned" (given back inside an InitError) or "dropped"

vars == <<pc, res, probe, conn, crtc, mode, buffers, held, card, calls, ret, hist,
          window>>

(* ------------------------------ results -------------------------------- *)
\* kind: "Ok", "Err" (an Err(..) returned to the caller) or "panic";
\* arg: the arguments the handler was called with
Ok(op, arg) == [op |-> op, kind |-> "Ok", msg |-> "", arg |-> arg]
Err(op, arg, msg) == [op |-> op, kind |-> "Err", msg |-> msg, arg |-> arg]
Panic(op, arg, msg) == [op |-> op, kind |-> "panic", msg |-> msg, arg |-> arg]

(* --------------------- Resource Negotiator (pure) ---------------------- *)
\* Iterator::flat_map over Result<connector::Info, _>: a Result iterates
\* over its Ok value and over nothing when it is an Err
flat_map_ok(answers) == SelectSeq(answers, LAMBDA a : a.ok)

\* (mutation for C9) Vec::pop in place of swap_remove(0)
swap_remove_pop(v, index) ==
    [value |-> v[Len(v)], rest |-> [i \in 1..(Len(v) - 1) |-> v[i]]]

\* Vec::swap_remove(index): the element at the 0-based index is returned
\* and the last element takes its place
swap_remove(v, index) ==
    [value |-> v[index + 1],
     rest  |-> [i \in 1..(Len(v) - 1) |->
                   IF i = index + 1 THEN v[Len(v)] ELSE v[i]]]

NoConn == [handle |-> 0, ok |-> FALSE, state |-> "Unknown"]

\* find_connector: answers are get_connector's answers for res.connectors(),
\* in enumeration order
find_connector(answers) ==
    LET coninfo == SelectSeq(flat_map_ok(answers),
                             LAMBDA con : con.state = "Connected")
    IN  IF Len(coninfo) = 0
        THEN [kind |-> "Err", msg |-> "No connected DRM connector found",
              conn |-> NoConn, warned |-> FALSE]
        ELSE [kind |-> "Ok", msg |-> "",
              conn |-> swap_remove(coninfo, 0).value,
              warned |-> Len(coninfo) > 1]

\* (mutation for C10) the bit of position n taken one place too high
Bit_shifted(filter, n) == (filter \div (2^(n + 1))) % 2

\* bit n of a CrtcListFilter
Bit(filter, n) == (filter \div (2^n)) % 2

\* ResourceHandles::filter_crtcs: the CRTCs of the device's list whose
\* position n has bit n set in the filter, in list order
RECURSIVE filter_crtcs_from(_, _, _)
filter_crtcs_from(crtcs, filter, n) ==
    IF n >= Len(crtcs) THEN <<>>
    ELSE (IF Bit(filter, n) # 0 THEN <<crtcs[n + 1]>> ELSE <<>>)
             \o filter_crtcs_from(crtcs, filter, n + 1)

filter_crtcs(crtcs, filter) == filter_crtcs_from(crtcs, filter, 0)

\* find_crtc: encs are get_encoder's answers for conn.encoders(), in order;
\* crtc_ok is whether get_crtc succeeds for the CRTC picked
RECURSIVE find_crtc_from(_, _, _, _)
find_crtc_from(crtcs, encs, crtc_ok, i) ==
    IF i > Len(encs)
    THEN [kind |-> "Err", msg |-> "No compatible CRTC found", crtc |-> 0]
    ELSE IF ~encs[i].ok
    THEN [kind |-> "panic", msg |-> "get_encoder", crtc |-> 0]
    ELSE LET found == filter_crtcs(crtcs, encs[i].possible_crtcs)
         IN  IF Len(found) > 0
             THEN IF crtc_ok
                  THEN [kind |-> "Ok", msg |-> "", crtc |-> found[1]]
                  ELSE [kind |-> "Err", msg |-> "Failed to get CRTC", crtc |-> 0]
             ELSE find_crtc_from(crtcs, encs, crtc_ok, i + 1)

find_crtc(crtcs, encs, crtc_ok) == find_crtc_from(crtcs, encs, crtc_ok, 1)

(* ------------------------------- Init ---------------------------------- *)
\* step: the statement of KmsImpl::new the answers were given to
NoProbe == [step |-> "", connectors |-> <<>>, encoders |-> <<>>, crtc_ok |-> FALSE]
NoRes == [connectors |-> <<>>, crtcs |-> <<>>]

\* the device before the application touches it: no object of ours, nothing
\* of ours scanned out, no flip pending, no event queued
\* rowpad: the pixels per row the driver pads a dumb buffer's pitch by
\* unplugged: the connector chosen at creation is no longer connected
NoCard(rowpad) ==
    [rowpad |-> rowpad, made |-> 0, dumbs |-> {}, fbs |-> {},
     scanout |-> 0, pending |-> 0, events |-> 0, unplugged |-> FALSE]

Init ==
    /\ pc = "start"
    /\ res = NoRes
    /\ probe = NoProbe
    /\ conn = NoConn
    /\ crtc = 0
    /\ mode = <<0, 0>>
    /\ buffers = None
    /\ held = None
    /\ card \in {NoCard(rowpad) : rowpad \in 0..MaxRowPad}
    /\ calls = <<>>
    /\ ret = Ok("init", <<>>)
    /\ hist = [resized |-> FALSE, handed |-> <<>>, presented |-> <<>>, cycle |-> FALSE]
    /\ window = "caller"

(* ------------------------- Display Context ----------------------------- *)
\* ContextInterface::new for Arc<KmsDisplayImpl<D>>
ContextNew(handle) ==
    /\ pc = "start"
    /\ calls' = <<>>
    /\ IF handle = "Drm"
       THEN pc' = "ctx" /\ ret' = Ok("Context::new", <<handle>>)
       ELSE pc' = "panicked" /\ ret' = Panic("Context::new", <<handle>>, "")
    /\ UNCHANGED <<res, probe, conn, crtc, mode, buffers, held, card, hist, window>>

(* ------------------- KmsImpl::new, statement by statement -------------- *)
\* the window when KmsImpl::new returns an InitError built by find_connector
\* or find_crtc: InitError::Failure(SoftBufferError) holds the error alone,
\* and neither function is given the window, which new drops as it returns
window_on_failure == "dropped"

\* let res = display.resource_handles().expect(..)
new_resource_handles(ok, n, crtcs) ==
    /\ pc = "ctx"
    /\ calls' = <<>>
    /\ IF ok
       THEN /\ pc' = "new_conn"
            /\ res' = [connectors |-> [i \in 1..n |-> i], crtcs |-> crtcs]
            /\ ret' = ret
            /\ window' = "new"
       ELSE /\ pc' = "panicked"
            /\ res' = res
            /\ ret' = Panic("Surface::new", <<>>, "Could not load normal resource ids.")
            /\ window' = "dropped"
    /\ UNCHANGED <<probe, conn, crtc, mode, buffers, held, card, hist>>

\* let conn = find_connector(display, &res)?
new_find_connector(answers) ==
    /\ pc = "new_conn"
    /\ Len(answers) = Len(res.connectors)
    /\ calls' = <<>>
    /\ probe' = [NoProbe EXCEPT !.step = "find_connector", !.connectors = answers]
    /\ LET r == find_connector(answers)
       IN  IF r.kind = "Ok"
           THEN pc' = "new_crtc" /\ conn' = r.conn /\ ret' = ret
                /\ window' = window
           ELSE pc' = "init_err" /\ conn' = conn
                /\ ret' = Err("Surface::new", <<>>, r.msg)
                /\ window' = window_on_failure
    /\ UNCHANGED <<res, crtc, mode, buffers, held, card, hist>>

\* let crtc = find_crtc(display, &res, &conn)?
new_find_crtc(encs, crtc_ok) ==
    /\ pc = "new_crtc"
    /\ calls' = <<>>
    /\ probe' = [NoProbe EXCEPT !.step = "find_crtc", !.encoders = encs,
                                !.crtc_ok = crtc_ok]
    /\ LET r == find_crtc(res.crtcs, encs, crtc_ok)
       IN  CASE r.kind = "Ok" ->
                   pc' = "new_mode" /\ crtc' = r.crtc /\ ret' = ret
                   /\ window' = window
             [] r.kind = "Err" ->
                   pc' = "init_err" /\ crtc' = crtc
                   /\ ret' = Err("Surface::new", <<>>, r.msg)
                   /\ window' = window_on_failure
             [] OTHER ->
                   pc' = "panicked" /\ crtc' = crtc
                   /\ ret' = Panic("Surface::new", <<>>, r.msg)
                   /\ window' = "dropped"
    /\ UNCHANGED <<res, conn, mode, buffers, held, card, hist>>

\* let mode = *conn.modes().first().expect(..); Ok(KmsImpl { buffers: None, .. })
new_mode(modes) ==
    /\ pc = "new_mode"
    /\ calls' = <<>>
    /\ probe' = NoProbe
    /\ res' = NoRes
    /\ IF Len(modes) > 0
       THEN /\ pc' = "surf"
            /\ mode' = modes[1]
            /\ buffers' = None
            /\ ret' = Ok("Surface::new", <<>>)
            /\ window' = "surface"
       ELSE /\ pc' = "panicked"
            /\ mode' = mode
            /\ buffers' = buffers
            /\ ret' = Panic("Surface::new", <<>>, "No modes found on connector")
            /\ window' = "dropped"
    /\ UNCHANGED <<conn, crtc, held, card, hist>>

(* ------------------------- the DRM device ------------------------------ *)
Call(name, c, fb, flags) == [call |-> name, crtc |-> c, fb |-> fb, flags |-> flags]

\* `as u16` of a u32
U16(x) == x % (2^16)

\* the kernel refuses a dumb buffer whose byte size does not fit 32 bits
dumb_fits(c, width, height) == width + c.rowpad <= (2^30 - 1) \div height

\* SharedBuffer::new.  fail: "none", "db" (create_dumb_buffer fails) or "fb"
\* (add_framebuffer fails); h: the fresh handle the device gives the dumb
\* buffer and the framebuffer it creates
SharedBuffer_new(c, width, height, fail, h) ==
    LET db == [handle |-> h, size |-> <<width, height>>,
               pitch |-> 4 * (width + c.rowpad),
               length |-> 4 * (width + c.rowpad) * height]
        created == [c EXCEPT !.dumbs = @ \cup {h}]
    IN  IF fail = "db" \/ ~dumb_fits(c, width, height)
        THEN [kind |-> "Err", msg |-> "failed to create dumb buffer",
              buf |-> None, card |-> c,
              calls |-> <<Call("create_dumb_buffer", 0, 0, "")>>]
        ELSE IF fail = "fb"
        THEN [kind |-> "Err", msg |-> "failed to add framebuffer",
              buf |-> None, card |-> created,
              calls |-> <<Call("create_dumb_buffer", 0, 0, ""),
                          Call("add_framebuffer", 0, 0, "")>>]
        ELSE [kind |-> "Ok", msg |-> "",
              buf |-> [fb |-> h, db |-> db],
              card |-> [created EXCEPT !.fbs = @ \cup {h}],
              calls |-> <<Call("create_dumb_buffer", 0, 0, ""),
                          Call("add_framebuffer", 0, h, "")>>]

\* a successful mode-set: the CRTC scans fb out from now on; a flip still
\* pending is completed first and its event queued
set_crtc(c, fb) ==
    [c EXCEPT !.scanout = fb, !.pending = 0,
              !.events = IF c.pending # 0 THEN @ + 1 ELSE @]

\* what the device may answer to a page-flip request with an event asked
\* for: it refuses while an earlier flip is pending or while it has no
\* room to queue another event, and it may refuse for other reasons
PageFlipAnswers(c) ==
    IF c.pending = 0 /\ c.events < MaxEvents THEN {"ok", "err"} ELSE {"err"}

(* ------------------------- Swap-Chain Manager -------------------------- *)
\* the (width, height) the application may pass to resize(): the mode's
\* own, the mode's own with 2^16 added to one of them, and other ones
ResizeArgs ==
    {<<mode[1], mode[2]>>,
     <<mode[1] + 2^16, mode[2]>>, <<mode[1], mode[2] + 2^16>>,
     <<mode[1] + 1, mode[2]>>, <<mode[1], mode[2] + 1>>}

\* how far resize gets: everything succeeds, or the named device call fails
ResizeOutcomes == {"ok", "db1", "fb1", "db2", "fb2", "crtc"}

\* the two assert_eq! of resize
resize_asserts(width, height) ==
    /\ mode[1] = U16(width)
    /\ mode[2] = U16(height)

\* the last three buffers handed out
Remember(handed, fb) ==
    LET all == Append(handed, fb)
    IN  IF Len(all) > 3 THEN Tail(all) ELSE all

\* the last two buffers presented
RememberPresent(presented, fb) ==
    LET all == Append(presented, fb)
    IN  IF Len(all) > 2 THEN Tail(all) ELSE all

\* (mutation for C1) resize written with .swbuf_err(..)? on set_crtc
set_crtc_swbuf_err == "Err"

\* what resize does when set_crtc answers an error
set_crtc_unwrap == "panic"

\* (mutation for C14) resize asking the device for the connector again
conn_queried_again(cn, c) ==
    [cn EXCEPT !.state = IF c.unplugged THEN "Disconnected" ELSE "Connected"]

\* self.conn across resize: read for its handle, never assigned
conn_in_resize(cn, c) == cn

\* (mutation for C17) resize storing the buffers as they are created
buffers_stored_early(old, made) ==
    IF made = <<>> THEN old ELSE [buffers |-> made, first_is_front |-> TRUE]

\* self.buffers when a SharedBuffer::new of resize fails: buf1 and buf2 are
\* locals, and `?` returns before self.buffers is assigned
buffers_on_error(old, made) == old

\* KmsImpl::resize
resize(width, height, outcome) ==
    /\ pc = "surf"
    /\ held = None
    /\ card.made < 2 * MaxResizes
    /\ LET arg == <<width, height>>
           fresh == [card EXCEPT !.made = @ + 2]
           r1 == SharedBuffer_new(fresh, width, height,
                     CASE outcome = "db1" -> "db" [] outcome = "fb1" -> "fb"
                       [] OTHER -> "none", card.made + 1)
           r2 == SharedBuffer_new(r1.card, width, height,
                     CASE outcome = "db2" -> "db" [] outcome = "fb2" -> "fb"
                       [] OTHER -> "none", card.made + 2)
       IN  IF ~resize_asserts(width, height)
           THEN /\ pc' = "panicked"
                /\ ret' = Panic("resize", arg, "assert_eq failed")
                /\ calls' = <<>>
                /\ UNCHANGED <<buffers, card, hist>>
           ELSE IF r1.kind = "Err"
           THEN /\ pc' = pc
                /\ ret' = Err("resize", arg, r1.msg)
                /\ calls' = r1.calls
                /\ card' = r1.card
                /\ buffers' = buffers_on_error(buffers, <<>>)
                /\ hist' = [hist EXCEPT !.handed = <<>>]
           ELSE IF r2.kind = "Err"
           THEN /\ pc' = pc
                /\ ret' = Err("resize", arg, r2.msg)
                /\ calls' = r1.calls \o r2.calls
                /\ card' = r2.card
                /\ buffers' = buffers_on_error(buffers, <<r1.buf>>)
                /\ hist' = [hist EXCEPT !.handed = <<>>]
           ELSE /\ buffers' = [buffers |-> <<r1.buf, r2.buf>>, first_is_front |-> TRUE]
                /\ calls' = r1.calls \o r2.calls
                               \o <<Call("set_crtc", crtc, r1.buf.fb, "")>>
                /\ IF outcome = "crtc"
                   THEN /\ IF set_crtc_unwrap = "panic"
                           THEN pc' = "panicked" /\ ret' = Panic("resize", arg, "set_crtc")
                           ELSE pc' = pc /\ ret' = Err("resize", arg, "set_crtc")
                        /\ card' = r2.card
                        /\ hist' = [hist EXCEPT !.handed = <<>>]
                   ELSE /\ pc' = pc
                        /\ ret' = Ok("resize", arg)
                        /\ card' = set_crtc(r2.card, r1.buf.fb)
                        /\ hist' = [hist EXCEPT !.handed = <<>>, !.resized = TRUE,
                                                !.presented = <<>>, !.cycle = TRUE]
    /\ conn' = conn_in_resize(conn, card)
    /\ UNCHANGED <<res, probe, crtc, mode, held, window>>

\* the buffer buffer_mut picks: the 1-based position in Buffers.buffers
front_index(first_is_front) == IF first_is_front THEN 1 ELSE 2

\* buffers.first_is_front = !buffers.first_is_front
flip(first_is_front) == ~first_is_front

\* bytemuck::cast_slice from [u8] to [u32]: the number of elements
cast_slice_len(bytes) == bytes \div 4

\* KmsImpl::buffer_mut
buffer_mut(map_ok) ==
    /\ pc = "surf"
    /\ held = None
    /\ IF buffers = None
       THEN /\ pc' = "panicked"
            /\ ret' = Panic("buffer_mut", <<>>, "Need to call resize first...")
            /\ calls' = <<>>
            /\ UNCHANGED <<buffers, held, hist>>
       ELSE LET front == buffers.buffers[front_index(buffers.first_is_front)]
            IN  /\ buffers' = [buffers EXCEPT !.first_is_front = flip(@)]
                /\ calls' = <<Call("map_dumb_buffer", 0, front.fb, "")>>
                /\ pc' = pc
                /\ IF map_ok
                   THEN /\ held' = [fb |-> front.fb, crtc |-> crtc,
                                    mapping |-> front.db.length]
                        /\ ret' = Ok("buffer_mut", <<>>)
                        /\ hist' = [hist EXCEPT !.handed = Remember(@, front.fb)]
                   ELSE /\ held' = None
                        /\ ret' = Err("buffer_mut", <<>>, "Failed to map dumb buffer")
                        /\ hist' = [hist EXCEPT !.cycle = FALSE, !.presented = <<>>]
    /\ UNCHANGED <<res, probe, conn, crtc, mode, card, window>>

\* BufferImpl::pixels / pixels_mut: the length of the slice exposed
pixels_len(buffer) == cast_slice_len(buffer.mapping)

\* BufferImpl::age
age == 2

(* ------------------------- Presentation Engine ------------------------- *)
\* (mutation for C7) a present that waits for the flip to complete and
\* reads the device's events before it returns
page_flip_and_wait(c, fb) == [c EXCEPT !.scanout = fb, !.pending = 0, !.events = 0]

\* a page-flip request the device accepts: the flip is pending until the
\* hardware completes it
page_flip(c, fb) == [c EXCEPT !.pending = fb]

\* what present does when page_flip answers an error
page_flip_unwrap == "panic"

\* BufferImpl::present_with_damage (present is present_with_damage(&[]))
present_with_damage(answer) ==
    /\ pc = "surf"
    /\ held # None
    /\ answer \in PageFlipAnswers(card)
    /\ calls' = <<Call("page_flip", held.crtc, held.fb, "EVENT")>>
    /\ held' = None
    /\ IF answer = "ok"
       THEN /\ card' = page_flip(card, held.fb)
            /\ ret' = Ok("present", <<held.fb>>)
            /\ pc' = pc
            /\ hist' = [hist EXCEPT !.presented =
                                    IF hist.cycle THEN RememberPresent(@, held.fb) ELSE @]
       ELSE /\ card' = card
            /\ hist' = hist
            /\ IF page_flip_unwrap = "panic"
               THEN pc' = "panicked" /\ ret' = Panic("present", <<held.fb>>, "page_flip")
               ELSE pc' = pc /\ ret' = Err("present", <<held.fb>>, "page_flip")
    /\ UNCHANGED <<res, probe, conn, crtc, mode, buffers, window>>

\* the application drops the BufferImpl without presenting it
DropBuffer ==
    /\ pc = "surf"
    /\ held # None
    /\ held' = None
    /\ calls' = <<>>
    /\ ret' = Ok("drop", <<held.fb>>)
    /\ hist' = [hist EXCEPT !.cycle = FALSE, !.presented = <<>>]
    /\ UNCHANGED <<pc, res, probe, conn, crtc, mode, buffers, card, window>>

(* ------------------- hardware and host application --------------------- *)
\* the display hardware completes the pending flip at a vertical blank and
\* queues the completion event that was asked for
FlipComplete ==
    /\ card.pending # 0
    /\ card' = [card EXCEPT !.scanout = card.pending, !.pending = 0,
                            !.events = @ + 1]
    /\ UNCHANGED <<pc, res, probe, conn, crtc, mode, buffers, held, calls, ret, hist,
                   window>>

\* the cable of the chosen connector is pulled or put back while the
\* surface exists; no call of the surface is in progress
Hotplug ==
    /\ pc = "surf"
    /\ card' = [card EXCEPT !.unplugged = ~@]
    /\ calls' = <<>>
    /\ UNCHANGED <<pc, res, probe, conn, crtc, mode, buffers, held, ret, hist, window>>

\* the host application polls the device until it is readable and drains
\* the event queue (examples/drm.rs)
ReceiveEvents ==
    /\ pc = "surf"
    /\ held = None
    /\ card.events > 0
    /\ card' = [card EXCEPT !.events = 0]
    /\ calls' = <<Call("receive_events", 0, 0, "")>>
    /\ ret' = Ok("receive_events", <<>>)
    /\ UNCHANGED <<pc, res, probe, conn, crtc, mode, buffers, held, hist, window>>

(* --------------------------- specification ----------------------------- *)
\* creating the context and the surface on a device that answers the
\* queries of the negotiation with members of the given sets
Negotiate(connectorLists, crtcLists, encoderLists, modeLists) ==
    \/ \E handle \in DisplayHandles : ContextNew(handle)
    \/ \E ok \in BOOLEAN, n \in {Len(l) : l \in connectorLists}, crtcs \in crtcLists :
          new_resource_handles(ok, n, crtcs)
    \/ \E answers \in connectorLists : new_find_connector(answers)
    \/ \E encs \in encoderLists, crtc_ok \in BOOLEAN : new_find_crtc(encs, crtc_ok)
    \/ \E modes \in modeLists : new_mode(modes)

\* the negotiation alone, over every device within the bounds
NextNegotiate == Negotiate(ConnectorLists, CrtcLists, EncoderLists, ModeLists)

\* the row padding plays no part in the negotiation
InitNegotiate == Init /\ card.rowpad = 0

SpecNegotiate == InitNegotiate /\ [][NextNegotiate]_vars

\* the device the swap chain is run on: one connector, connected or not,
\* whose one encoder drives the one CRTC, and which reports ModeA first
OneConnector ==
    {<<[handle |-> 1, ok |-> TRUE, state |-> st]>> : st \in {"Connected", "Disconnected"}}
OneCrtc == {<<1>>}
OneEncoder == {<<[ok |-> TRUE, possible_crtcs |-> 1]>>}
OneModeList == {<<ModeA, ModeB>>}

Next ==
    \/ Negotiate(OneConnector, OneCrtc, OneEncoder, OneModeList)
    \/ \E arg \in ResizeArgs, outcome \in ResizeOutcomes :
          resize(arg[1], arg[2], outcome)
    \/ \E map_ok \in BOOLEAN : buffer_mut(map_ok)
    \/ \E answer \in {"ok", "err"} : present_with_damage(answer)
    \/ DropBuffer
    \/ FlipComplete
    \/ ReceiveEvents

Spec == Init /\ [][Next]_vars

\* the same program on a device whose connector is plugged and unplugged
\* while the surface exists
NextHotplug == Next \/ Hotplug

SpecHotplug == InitNegotiate /\ [][NextHotplug]_vars

(* ------------------------------ claims --------------------------------- *)
MinOf(S) == CHOOSE x \in S : \A y \in S : x <= y

\* C1: as long as no resize has completed successfully, buffer_mut never
\* returns a buffer: every call of it fails, and the application holds none.
C1_AcquireBeforeResizeFails ==
    ~hist.resized =>
        /\ held = None
        /\ ret.op = "buffer_mut" => ret.kind = "panic"

\* C1 witness: buffer_mut has failed on a surface whose only resize so far
\* got as far as allocating and then returned an error.
C1_Witness ==
    /\ ~hist.resized
    /\ card.dumbs # {}
    /\ ret.op = "buffer_mut"
    /\ ret.kind = "panic"

\* C2: between two resizes, successive successful buffer_mut calls
\* alternate: calls n and n+1 return different buffers, calls n and n+2
\* return the same buffer.
C2_SuccessiveAcquiresAlternate ==
    LET n == Len(hist.handed)
    IN  /\ n >= 2 => hist.handed[n - 1] # hist.handed[n]
        /\ n >= 3 => hist.handed[n - 2] = hist.handed[n]

\* the framebuffer most recently submitted for display, by a mode-set or by
\* a page flip (0: none)
LastSubmitted == IF card.pending # 0 THEN card.pending ELSE card.scanout

\* C3: whenever the surface has a buffer pair, the buffer the next
\* buffer_mut call hands out is not the front buffer, the one most recently
\* submitted for display.
C3_NextAcquireIsNotFront ==
    (pc = "surf" /\ buffers # None) =>
        buffers.buffers[front_index(buffers.first_is_front)].fb # LastSubmitted

\* C4: the buffer the application holds writable is never the buffer the
\* CRTC is scanning out, however late the hardware completes page flips.
C4_HeldIsNotScannedOut ==
    held # None => held.fb # card.scanout

\* C5: resize goes on to allocate only when (width, height) is exactly the
\* negotiated mode's size; with any other pair it ends in the assertion
\* failure without a single device call.
C5_ResizeOnlyForModeSize ==
    ret.op = "resize" =>
        IF ret.arg = mode
        THEN ret.msg # "assert_eq failed"
        ELSE ret.kind = "panic" /\ ret.msg = "assert_eq failed" /\ calls = <<>>

\* the SharedBuffer of the current pair with the given framebuffer
BufferOf(fb) == CHOOSE b \in {buffers.buffers[1], buffers.buffers[2]} : b.fb = fb

\* C6: the pixel array of a buffer handed out after resize(w, h) has
\* exactly w * h elements, whatever pitch the device gave the dumb buffer.
C6_PixelsLenIsWidthTimesHeight ==
    held # None =>
        pixels_len(held) = BufferOf(held.fb).db.size[1] * BufferOf(held.fb).db.size[2]

\* a step of present_with_damage
PresentStep == held # None /\ held' = None /\ ret'.op = "present"

\* C7: present issues exactly one device call, a page-flip request for the
\* acquired buffer's framebuffer on the negotiated CRTC with the completion
\* event asked for; it leaves the event queue and the scan-out as they are,
\* and when it returns the flip it asked for is still pending.
C7_PresentSubmitsAndReturns ==
    [][PresentStep =>
          /\ calls' = <<Call("page_flip", crtc, held.fb, "EVENT")>>
          /\ card'.events = card.events
          /\ card'.scanout = card.scanout
          /\ ret'.kind = "Ok" => card'.pending = held.fb]_vars

\* C7 witness: present has returned while its flip is pending and an
\* earlier completion event still sits undrained in the queue.
C7_Witness ==
    /\ ret.op = "present"
    /\ ret.kind = "Ok"
    /\ card.pending = ret.arg[1]
    /\ card.scanout # ret.arg[1]
    /\ card.events > 0

\* C8: when the device rejects the page-flip request, present returns an
\* error to the caller; it does not abort.
C8_RejectedFlipIsAnError ==
    ret.op = "present" => (ret.kind \in {"Ok", "Err"} /\ pc # "panicked")

\* the positions of the connectors that answered and report Connected
ConnectedAt(answers) ==
    {i \in 1..Len(answers) : answers[i].ok /\ answers[i].state = "Connected"}

\* C9: find_connector fails with the "no connected connector" error when no
\* connector is connected, and otherwise selects the first connected one in
\* enumeration order (the only one, when there is exactly one).
C9_FindConnector ==
    probe.step = "find_connector" =>
        LET at == ConnectedAt(probe.connectors)
        IN  IF at = {}
            THEN /\ pc = "init_err"
                 /\ ret.kind = "Err"
                 /\ ret.msg = "No connected DRM connector found"
            ELSE /\ pc = "new_crtc"
                 /\ conn = probe.connectors[MinOf(at)]

\* C9 witness: two connectors are connected and the first of the two in
\* enumeration order was selected.
C9_Witness ==
    /\ probe.step = "find_connector"
    /\ Cardinality(ConnectedAt(probe.connectors)) >= 2
    /\ pc = "new_crtc"
    /\ conn.handle = 1

\* the 0-based positions in the device's CRTC list that the bitmask names
PositionsIn(crtcs, mask) ==
    {n \in 0..(Len(crtcs) - 1) : (mask \div (2^n)) % 2 = 1}

\* the encoders, by position, whose bitmask meets the device's CRTC list
Compatible(crtcs, encs) ==
    {i \in 1..Len(encs) : encs[i].ok /\ PositionsIn(crtcs, encs[i].possible_crtcs) # {}}

\* the CRTC the negotiation should select: the first member of the
\* intersection of the first compatible encoder
ExpectedCrtc(crtcs, encs) ==
    crtcs[MinOf(PositionsIn(crtcs, encs[MinOf(Compatible(crtcs, encs))].possible_crtcs)) + 1]

\* C10: a CRTC selected by find_crtc is the first member of the
\* intersection of the first encoder, in order, whose intersection with the
\* device's CRTC list is non-empty; when every encoder answers and none has
\* a non-empty intersection, find_crtc fails with "no compatible CRTC"; when
\* every encoder answers, one is compatible and the CRTC can be read,
\* find_crtc selects.
C10_FindCrtc ==
    probe.step = "find_crtc" =>
        LET encs == probe.encoders
            some == Compatible(res.crtcs, encs) # {}
            answered == \A i \in 1..Len(encs) : encs[i].ok
        IN  /\ pc = "new_mode" => (some /\ crtc = ExpectedCrtc(res.crtcs, encs))
            /\ (answered /\ ~some) =>
                   (pc = "init_err" /\ ret.kind = "Err"
                    /\ ret.msg = "No compatible CRTC found")
            /\ (answered /\ some /\ probe.crtc_ok) => pc = "new_mode"

\* C10 witness: the first encoder's bitmask is not zero but names no CRTC
\* of the device's list, and the CRTC was taken from the second encoder.
C10_Witness ==
    /\ probe.step = "find_crtc"
    /\ pc = "new_mode"
    /\ Len(probe.encoders) = 2
    /\ probe.encoders[1].possible_crtcs # 0
    /\ MinOf(Compatible(res.crtcs, probe.encoders)) = 2
    /\ crtc = res.crtcs[1]

\* C11: a context created from a display handle that is not a DRM one ends
\* in an InitError returned to the caller, not in a panic.
C11_WrongHandleIsInitError ==
    (ret.op = "Context::new" /\ ret.arg = <<"Xlib">>) =>
        (ret.kind = "Err" /\ pc # "panicked")

\* C12: when surface creation fails in the negotiation, the window handle
\* goes back to the caller inside the failure.
C12_FailureReturnsWindow ==
    (pc = "init_err" /\ ret.op = "Surface::new" /\ ret.kind = "Err") =>
        window = "returned"

\* the application is in an acquire -> present cycle begun by a resize and
\* holds the buffer just acquired
InCycle == held # None /\ hist.cycle

\* C13: age() is 2 and, at every acquire of an acquire -> present cycle
\* following a resize, the buffer handed out is the one presented two
\* presents before and not the one presented last.
C13_AgeTwoAtEveryAcquire ==
    /\ age = 2
    /\ InCycle =>
          /\ Len(hist.presented) = 2
          /\ held.fb = hist.presented[1]
          /\ held.fb # hist.presented[2]

\* the queries of the negotiation
NegotiationCalls == {"resource_handles", "get_connector", "get_encoder", "get_crtc"}

\* C14: no step taken while the surface exists (resize, buffer_mut, present,
\* whatever the hardware's connector state has become) changes the
\* connector, the CRTC or the mode chosen at creation, and none of them
\* issues a query of the negotiation.
C14_NegotiationIsFixed ==
    [][pc = "surf" =>
          /\ conn' = conn
          /\ crtc' = crtc
          /\ mode' = mode
          /\ \A i \in 1..Len(calls') : calls'[i].call \notin NegotiationCalls]_vars

\* C14 witness: a resize has completed on a surface whose connector was
\* unplugged before it, and the surface still holds the connector as it
\* was chosen.
C14_Witness ==
    /\ pc = "surf"
    /\ card.unplugged
    /\ ret.op = "resize"
    /\ ret.kind = "Ok"
    /\ calls # <<>>
    /\ conn.state = "Connected"

\* C15: when resize has returned Ok the first buffer of the new pair is the
\* one its set_crtc bound and the flag names it the front; the first
\* buffer_mut after that resize hands out the second buffer of the pair.
C15_FirstAcquireIsSecondBuffer ==
    /\ (ret.op = "resize" /\ ret.kind = "Ok") =>
          /\ buffers.first_is_front
          /\ calls[Len(calls)] = Call("set_crtc", crtc, buffers.buffers[1].fb, "")
    /\ (InCycle /\ hist.handed = <<held.fb>> /\ hist.presented = <<>>) =>
          /\ held.fb = buffers.buffers[2].fb
          /\ held.fb # buffers.buffers[1].fb

\* the dumb buffers and the framebuffers of the surface's current pair
PairDumbs == IF buffers = None THEN {}
             ELSE {buffers.buffers[i].db.handle : i \in 1..Len(buffers.buffers)}
PairFbs == IF buffers = None THEN {}
           ELSE {buffers.buffers[i].fb : i \in 1..Len(buffers.buffers)}

\* C16: the dumb buffers and the framebuffers allocated on the device for
\* the surface are those of its current pair and no others, so at most two
\* of each, whatever resizes have succeeded or failed.
C16_OnlyCurrentPairAllocated ==
    /\ card.dumbs \subseteq PairDumbs
    /\ card.fbs \subseteq PairFbs
    /\ Cardinality(card.dumbs) <= 2
    /\ Cardinality(card.fbs) <= 2

\* C17: the surface holds no SharedBuffer or exactly two, never one, in
\* every reachable state; in particular after a resize whose first
\* SharedBuffer was created and whose second was not.
C17_ZeroOrTwoBuffers ==
    buffers = None \/ Len(buffers.buffers) = 2

\* C17 witness: resize has returned an error after creating its first
\* SharedBuffer (the calls of a second SharedBuffer::new follow the first
\* two), on a surface that held no pair.
C17_Witness ==
    /\ ret.op = "resize"
    /\ ret.kind = "Err"
    /\ Len(calls) >= 3
    /\ calls[2].call = "add_framebuffer"
    /\ calls[2].fb # 0
    /\ buffers = None

\* C18: when buffer_mut has failed at map_dumb_buffer the flag is as it was
\* before the call: the buffer the next buffer_mut picks is the buffer the
\* failed call tried to map.
C18_FailedAcquireKeepsFlag ==
    (ret.op = "buffer_mut" /\ ret.kind = "Err") =>
        /\ calls = <<Call("map_dumb_buffer", 0, calls[1].fb, "")>>
        /\ buffers.buffers[front_index(buffers.first_is_front)].fb = calls[1].fb

\* C19: when resize has not returned Ok (an allocation, a framebuffer
\* registration or the mode-set failed) the surface's pair is the one it
\* had before the call: no framebuffer registered by the failed call is in
\* the pair the surface holds.
C19_FailedResizeKeepsPair ==
    (ret.op = "resize" /\ ret.kind # "Ok") =>
        \A i \in 1..Len(calls) :
            (calls[i].call = "add_framebuffer" /\ calls[i].fb # 0) =>
                calls[i].fb \notin PairFbs

====
